---- MODULE Spec2Model ----
(***************************************************************************)
(* pagerduty-rs: the integration API client.                               *)
(*                                                                         *)
(* The model covers the three event payload builders (TriggerEvent,        *)
(* ResolveEvent, AcknowledgeEvent) with their serde serialization, the     *)
(* credential wrapper, the request executor `perform` and the response     *)
(* classification `Response::get_response`.                                *)
(*                                                                         *)
(* JSON texts are modelled by their structure: an object is the sequence   *)
(* of its members in the order they are written, so that omission, order   *)
(* and null-emission are observable.                                       *)
(***************************************************************************)
EXTENDS Naturals, Sequences, FiniteSets, TLC

VARIABLES
    event,          \* the payload value being built (a TriggerEvent / ResolveEvent / AcknowledgeEvent)
    ctor,           \* history: the constructor call that made `event`
    calls,          \* history: the chained builder calls applied since, in order
    own_headers,    \* what the payload's Requestable::headers returns
    pc,             \* position of the one invocation of perform: build, sent, read, done
    auth,           \* the AuthToken handed to perform (None before the call)
    requests,       \* the HTTP requests handed to the transport by this invocation
    res,            \* the hyper response returned by send(): status and the body stream
    response_body,  \* perform's local String after read_to_string
    reads,          \* number of read_to_string calls made by this invocation
    classified,     \* number of get_response calls made by this invocation
    transport,      \* history: what the transport did: idle, send_failed, answered, read_failed, read
    result          \* the value perform returned (None while it has not returned)

vars == <<event, ctor, calls, own_headers, pc, auth, requests, res, response_body, reads,
          classified, transport, result>>

eventVars == <<event, ctor, calls, own_headers>>
performVars == <<pc, auth, requests, res, response_body, reads, classified, transport,
                 result>>

----------------------------------------------------------------------------
(* Bounds of the model *)

\* at most this many chained builder calls after the constructor
MaxCalls == 3

----------------------------------------------------------------------------
(* Option<T> and serde_json::Value *)

None == <<>>
Some(x) == <<x>>
is_none(o) == o = <<>>
is_some(o) == o # <<>>
unwrap(o) == o[1]

JNull == [t |-> "null"]
JStr(s) == [t |-> "str", s |-> s]
JNum(n) == [t |-> "num", n |-> n]
JArr(a) == [t |-> "arr", a |-> a]
\* an object: its members [k, v] in written order
JObj(m) == [t |-> "obj", m |-> m]

Member(k, v) == [k |-> k, v |-> v]

\* the keys of an object, and the value under a key (first occurrence)
Keys(o) == {o.m[i].k : i \in 1..Len(o.m)}
HasKey(o, k) == \E i \in 1..Len(o.m) : o.m[i].k = k
CountKey(o, k) == Cardinality({i \in 1..Len(o.m) : o.m[i].k = k})
Get(o, k) == o.m[CHOOSE i \in 1..Len(o.m) : o.m[i].k = k].v

\* the concatenation of a sequence of sequences
RECURSIVE Flatten(_)
Flatten(ss) == IF ss = <<>> THEN <<>> ELSE Head(ss) \o Flatten(Tail(ss))

----------------------------------------------------------------------------
(* Inputs *)

\* string arguments given to setters
Strs == {"a", "b"}

\* the one URL given to set_client_url
UrlStrs == {"a"}

\* the argument pairs given to constructors
CtorArgs == {<<"a", "b">>, <<"b", "a">>}

\* values handed to set_details: a struct like the one of the tests, and the
\* unit value, which serde turns into JSON null
DetailsInputs ==
    { [ty |-> "struct", fields |-> <<[k |-> "last_delivery_time", n |-> 10]>>],
      [ty |-> "unit", fields |-> <<>>] }

\* serde_json::to_value on the values above
to_value(d) ==
    IF d.ty = "unit"
    THEN JNull
    ELSE JObj([i \in 1..Len(d.fields) |-> Member(d.fields[i].k, JNum(d.fields[i].n))])

----------------------------------------------------------------------------
(* Context *)

Context_link(href, text) ==
    [context_type |-> "link", src |-> None, href |-> Some(href),
     alt |-> None, text |-> Some(text)]

\* mutant: the alternative text of an image stored in the link's text field
Context_image_alt_as_text(src, href, alt) ==
    [context_type |-> "image", src |-> Some(src), href |-> href,
     alt |-> None, text |-> alt]

Context_image(src, href, alt) ==
    [context_type |-> "image", src |-> Some(src), href |-> href,
     alt |-> alt, text |-> None]

\* mutant: without the skip attribute an unset field is written as null
SerOptStr_null(k, o) ==
    IF is_none(o) THEN <<Member(k, JNull)>> ELSE <<Member(k, JStr(unwrap(o)))>>

\* one optional string field: skip_serializing_if = "Option::is_none"
SerOptStr(k, o) == IF is_none(o) THEN <<>> ELSE <<Member(k, JStr(unwrap(o)))>>

\* #[derive(Serialize)] of Context: fields in declaration order, type renamed
SerializeContext(c) ==
    JObj(Flatten(<< <<Member("type", JStr(c.context_type))>>,
                    SerOptStr("src", c.src),
                    SerOptStr("href", c.href),
                    SerOptStr("alt", c.alt),
                    SerOptStr("text", c.text) >>))

\* a call of one of the two public constructors, with its arguments
ImageCall(src, href, alt) == [fn |-> "image", src |-> src, href |-> href, alt |-> alt]
LinkCall(href, text) == [fn |-> "link", href |-> href, text |-> text]

MakeContext(k) ==
    IF k.fn = "image"
    THEN Context_image(k.src, k.href, k.alt)
    ELSE Context_link(k.href, k.text)

\* the constructor calls the builder of an event is offered
ContextCalls == {ImageCall("a", None, None), LinkCall("a", "b")}

\* the attachments the builder is offered
Contexts == {MakeContext(k) : k \in ContextCalls}

\* every call of the public constructors over the string arguments
OptStrs == {None} \cup {Some(x) : x \in Strs}
AllContextCalls ==
    {ImageCall(x, h, a) : x \in Strs, h \in OptStrs, a \in OptStrs}
        \cup {LinkCall(h, x) : h \in Strs, x \in Strs}

----------------------------------------------------------------------------
(* TriggerEvent *)

TriggerEvent_new(service_key, description) ==
    [service_key |-> service_key,
     event_type |-> "trigger",
     description |-> description,
     incident_key |-> None,
     client |-> None,
     client_url |-> None,
     details |-> None,
     contexts |-> <<>>]

set_incident_key(self, incident_key) ==
    [self EXCEPT !.incident_key = Some(incident_key)]

set_client(self, client) ==
    [self EXCEPT !.client = Some(client)]

set_client_url(self, client_url) ==
    [self EXCEPT !.client_url = Some(client_url)]

set_details(self, details) ==
    [self EXCEPT !.details = Some(to_value(details))]

\* mutant: the new attachment is put in front of the list
add_context_prepend(self, context) ==
    [self EXCEPT !.contexts = <<context>> \o @]

add_context(self, context) ==
    [self EXCEPT !.contexts = Append(@, context)]

\* an optional serde_json::Value field: skip_serializing_if = "Option::is_none"
SerOptJson(k, o) == IF is_none(o) THEN <<>> ELSE <<Member(k, unwrap(o))>>

\* the attachment list: skip_serializing_if = "Vec::is_empty"
SerContexts(k, v) ==
    IF v = <<>>
    THEN <<>>
    ELSE <<Member(k, JArr([i \in 1..Len(v) |-> SerializeContext(v[i])]))>>

\* #[derive(Serialize)] of TriggerEvent: fields in declaration order
SerializeTriggerEvent(e) ==
    JObj(Flatten(<< <<Member("service_key", JStr(e.service_key))>>,
                    <<Member("event_type", JStr(e.event_type))>>,
                    <<Member("description", JStr(e.description))>>,
                    SerOptStr("incident_key", e.incident_key),
                    SerOptStr("client", e.client),
                    SerOptStr("client_url", e.client_url),
                    SerOptJson("details", e.details),
                    SerContexts("contexts", e.contexts) >>))

----------------------------------------------------------------------------
(* shared_event_type!: ResolveEvent and AcknowledgeEvent *)

SharedEvent_new(event_type, service_key, incident_key) ==
    [service_key |-> service_key,
     event_type |-> event_type,
     incident_key |-> incident_key,
     description |-> None,
     details |-> None]

ResolveEvent_new(service_key, incident_key) ==
    SharedEvent_new("resolve", service_key, incident_key)

\* mutant: the acknowledge type built with the resolve discriminator
AcknowledgeEvent_new_resolve(service_key, incident_key) ==
    SharedEvent_new("resolve", service_key, incident_key)

AcknowledgeEvent_new(service_key, incident_key) ==
    SharedEvent_new("acknowledge", service_key, incident_key)

shared_set_details(self, details) ==
    [self EXCEPT !.details = Some(to_value(details))]

shared_set_description(self, description) ==
    [self EXCEPT !.description = Some(description)]

\* #[derive(Serialize)] of the macro's struct: fields in declaration order
SerializeSharedEvent(e) ==
    JObj(Flatten(<< <<Member("service_key", JStr(e.service_key))>>,
                    <<Member("event_type", JStr(e.event_type))>>,
                    <<Member("incident_key", JStr(e.incident_key))>>,
                    SerOptStr("description", e.description),
                    SerOptJson("details", e.details) >>))

----------------------------------------------------------------------------
(* The payload types *)

Kinds == {"TriggerEvent", "ResolveEvent", "AcknowledgeEvent"}

\* the constructor calls offered: the type and its two string arguments
Ctors == {[kind |-> k, a1 |-> p[1], a2 |-> p[2]] : k \in Kinds, p \in CtorArgs}

New(c) ==
    CASE c.kind = "TriggerEvent" -> TriggerEvent_new(c.a1, c.a2)
      [] c.kind = "ResolveEvent" -> ResolveEvent_new(c.a1, c.a2)
      [] c.kind = "AcknowledgeEvent" -> AcknowledgeEvent_new(c.a1, c.a2)

\* the static type of a payload value, read off its fields
IsTrigger(e) == "contexts" \in DOMAIN e

\* Requestable::body: to_string(&self).unwrap()
body(e) == IF IsTrigger(e) THEN SerializeTriggerEvent(e) ELSE SerializeSharedEvent(e)

----------------------------------------------------------------------------
(* request::Error and request::Result *)

Ok(v) == [tag |-> "Ok", val |-> v]
Err(e) == [tag |-> "Err", err |-> e]
is_ok(r) == r.tag = "Ok"
is_err(r) == r.tag = "Err"

\* the errors of the libraries underneath, by the library that raised them
hyper_Error == [lib |-> "hyper"]
io_Error == [lib |-> "io"]
serde_json_Error == [lib |-> "serde_json"]

Error_Http == [kind |-> "Http"]
Error_Deserialize == [kind |-> "Deserialize"]
Error_ReadResponse == [kind |-> "ReadResponse"]
Error_UnexpectedApiResponse == [kind |-> "UnexpectedApiResponse"]

\* mutant: a decode error converted to the catch-all error kind
From_deserialize_as_unexpected(e) ==
    CASE e.lib = "hyper" -> Error_Http
      [] e.lib = "serde_json" -> Error_UnexpectedApiResponse
      [] e.lib = "io" -> Error_ReadResponse

\* the three impl From<..> for Error, as try! applies them
From(e) ==
    CASE e.lib = "hyper" -> Error_Http
      [] e.lib = "serde_json" -> Error_Deserialize
      [] e.lib = "io" -> Error_ReadResponse

----------------------------------------------------------------------------
(* Response bodies and their decoding *)

\* A body text is empty, not JSON at all, or the text of a JSON value.
Body_empty == [syntax |-> "empty", value |-> JNull]
Body_garbage == [syntax |-> "garbage", value |-> JNull]
Json(v) == [syntax |-> "json", value |-> v]

StrArr(ss) == JArr([i \in 1..Len(ss) |-> JStr(ss[i])])

IsStr(v) == v.t = "str"
IsStrArr(v) == v.t = "arr" /\ \A i \in 1..Len(v.a) : v.a[i].t = "str"

\* a required String field of a derived Deserialize: present, and a string
HasStrField(o, k) == HasKey(o, k) /\ IsStr(Get(o, k))
HasStrArrField(o, k) == HasKey(o, k) /\ IsStrArr(Get(o, k))

\* serde_json::from_str::<response::Success>: unknown keys are skipped
from_str_Success(b) ==
    IF /\ b.syntax = "json"
       /\ b.value.t = "obj"
       /\ HasStrField(b.value, "status")
       /\ HasStrField(b.value, "message")
       /\ HasStrField(b.value, "incident_key")
    THEN Ok([status |-> Get(b.value, "status").s,
             message |-> Get(b.value, "message").s,
             incident_key |-> Get(b.value, "incident_key").s])
    ELSE Err(serde_json_Error)

\* serde_json::from_str::<response::BadRequest>
from_str_BadRequest(b) ==
    IF /\ b.syntax = "json"
       /\ b.value.t = "obj"
       /\ HasStrField(b.value, "status")
       /\ HasStrField(b.value, "message")
       /\ HasStrArrField(b.value, "errors")
    THEN Ok([status |-> Get(b.value, "status").s,
             message |-> Get(b.value, "message").s,
             errors |-> [i \in 1..Len(Get(b.value, "errors").a) |->
                            Get(b.value, "errors").a[i].s]])
    ELSE Err(serde_json_Error)

----------------------------------------------------------------------------
(* Response and Response::get_response *)

Response_Success(s) == [variant |-> "Success", success |-> s]
Response_BadRequest(b) == [variant |-> "BadRequest", bad_request |-> b]
Response_Forbidden == [variant |-> "Forbidden"]
Response_InternalServerError == [variant |-> "InternalServerError"]

StatusCode_Ok == 200
StatusCode_BadRequest == 400
StatusCode_Forbidden == 403
ServerErrorLow == 500
ServerErrorHigh == 599

\* mutant: only the plain 500 counts as a server error
is_server_error_only_500(status) == status = ServerErrorLow

\* mutant: the class has no upper end
is_server_error_unbounded(status) == ServerErrorLow <= status

\* StatusCode::is_server_error: the class of the numeric code
is_server_error(status) == ServerErrorLow <= status /\ status <= ServerErrorHigh

\* mutant: every status of the success class is decoded as Success
get_response_any_2xx(status, headers, b) ==
    CASE StatusCode_Ok <= status /\ status < StatusCode_Ok + 100 ->
            LET r == from_str_Success(b)
            IN  IF is_err(r) THEN Err(From(r.err)) ELSE Ok(Response_Success(r.val))
      [] status = StatusCode_BadRequest ->
            LET r == from_str_BadRequest(b)
            IN  IF is_err(r) THEN Err(From(r.err)) ELSE Ok(Response_BadRequest(r.val))
      [] status = StatusCode_Forbidden ->
            Ok(Response_Forbidden)
      [] OTHER ->
            IF is_server_error(status)
            THEN Ok(Response_InternalServerError)
            ELSE Err(Error_UnexpectedApiResponse)

get_response(status, headers, b) ==
    CASE status = StatusCode_Ok ->
            LET r == from_str_Success(b)
            IN  IF is_err(r) THEN Err(From(r.err)) ELSE Ok(Response_Success(r.val))
      [] status = StatusCode_BadRequest ->
            LET r == from_str_BadRequest(b)
            IN  IF is_err(r) THEN Err(From(r.err)) ELSE Ok(Response_BadRequest(r.val))
      [] status = StatusCode_Forbidden ->
            Ok(Response_Forbidden)
      [] OTHER ->
            IF is_server_error(status)
            THEN Ok(Response_InternalServerError)
            ELSE Err(Error_UnexpectedApiResponse)

\* impl Requestable for TriggerEvent and for the macro's types: R::get_response
\* of each of the three types delegates to Response::get_response
Requestable_get_response(kind, status, headers, b) ==
    CASE kind = "TriggerEvent" -> get_response(status, headers, b)
      [] kind = "ResolveEvent" -> get_response(status, headers, b)
      [] kind = "AcknowledgeEvent" -> get_response(status, headers, b)

----------------------------------------------------------------------------
(* AuthToken and the request perform builds *)

\* credentials handed to AuthToken::new; no format is enforced
Tokens == {"", "abc"}

AuthToken_new(raw_token) == raw_token

\* AuthToken::to_header: hyper's Authorization<String> over the raw token. A
\* String carries no scheme, so the header's value is the string as it is.
to_header(token) == [name |-> "Authorization", value |-> token]

UserAgent == [name |-> "User-Agent", value |-> "hyper/0.8.0 pagerduty-rs/0.1.0"]
ContentType_json == [name |-> "Content-Type", value |-> "application/json"]

\* hyper's Headers: one value per header name
Headers_new == <<>>

\* mutant: a header the payload already gave is left as it is
Headers_set_if_absent(h, hd) ==
    [n \in (DOMAIN h) \cup {hd.name} |-> IF n \in DOMAIN h THEN h[n] ELSE hd.value]

Headers_set(h, hd) ==
    [n \in (DOMAIN h) \cup {hd.name} |-> IF n = hd.name THEN hd.value ELSE h[n]]

\* mutant: the macro's types answer another method than TriggerEvent
Requestable_method_shared_get(e) == IF IsTrigger(e) THEN "POST" ELSE "GET"

\* Requestable::headers as the trait defines it; none of the three event
\* types overrides it
Requestable_headers_default == Headers_new

\* requestable.headers() as perform calls it: what the payload's impl returns
Requestable_headers(e) == own_headers

\* Requestable::url and ::method: the default, and Post for all types
Requestable_url(e) == "https://events.pagerduty.com/generic/2010-04-15/create_event.json"
Requestable_method(e) == "POST"

\* perform, up to send(): the request handed to the transport
BuildRequest(token, e) ==
    LET h0 == Requestable_headers(e)
        h1 == Headers_set(h0, to_header(token))
        h2 == Headers_set(h1, UserAgent)
        h3 == Headers_set(h2, ContentType_json)
    IN  [method |-> Requestable_method(e),
         url |-> Requestable_url(e),
         headers |-> h3,
         body |-> body(e)]

----------------------------------------------------------------------------
(* What the network may answer *)

SuccessObj(st, msg, key) ==
    JObj(<<Member("status", JStr(st)), Member("message", JStr(msg)),
           Member("incident_key", JStr(key))>>)

BadRequestObj(st, msg, errs) ==
    JObj(<<Member("status", JStr(st)), Member("message", JStr(msg)),
           Member("errors", StrArr(errs))>>)

Body_success == Json(SuccessObj("success", "Event processed", "KEY123"))
Body_bad_request ==
    Json(BadRequestObj("invalid event", "Event object is invalid",
                       <<"service_key is missing">>))

\* body texts given to get_response: no JSON, JSON of the wrong shape, the
\* two documented shapes with varying contents and key order, and mixtures
Bodies ==
    { Body_empty, Body_garbage, Json(JNull), Json(JStr("success")), Json(JObj(<<>>)),
      Body_success,
      Json(SuccessObj("ok", "m", "KEY456")),
      Json(JObj(<<Member("incident_key", JStr("K")), Member("extra", JNum(1)),
                  Member("message", JStr("m")), Member("status", JStr("s"))>>)),
      Body_bad_request,
      Json(BadRequestObj("invalid event", "m", <<>>)),
      Json(BadRequestObj("invalid event", "m", <<"e1", "e2">>)),
      Json(BadRequestObj("invalid event", "m", <<"e2", "e1">>)),
      Json(JObj(<<Member("status", JStr("s")), Member("message", JStr("m")),
                  Member("incident_key", JStr("K")), Member("errors", StrArr(<<"e1">>))>>)),
      Json(JObj(<<Member("status", JStr("s")), Member("message", JStr("m"))>>)),
      Json(JObj(<<Member("status", JStr("s")), Member("message", JStr("m")),
                  Member("incident_key", JNum(1)),
                  Member("errors", JArr(<<JStr("e1"), JNum(2)>>))>>)),
      Json(JObj(<<Member("status", JStr("s")), Member("message", JNull),
                  Member("incident_key", JStr("K")), Member("errors", JStr("e1"))>>)) }

\* status codes given to get_response
Statuses == {100, 200, 201, 204, 301, 400, 401, 403, 404, 418, 499, 500, 503, 599, 600}

\* the answers offered to an invocation of perform
WireStatuses == {200, 400, 403, 418, 500}
WireBodies == {Body_success, Body_bad_request}

\* response headers; get_response does not look at them
ResponseHeaders == Headers_set(Headers_new, ContentType_json)

----------------------------------------------------------------------------
(* Initial states *)

\* perform not yet called
InitPerform ==
    /\ pc = "build"
    /\ auth = None
    /\ requests = <<>>
    /\ res = None
    /\ response_body = None
    /\ reads = 0
    /\ classified = 0
    /\ transport = "idle"
    /\ result = None

\* everything but the payload's own headers
InitPayload ==
    /\ ctor \in Ctors
    /\ event = New(ctor)
    /\ calls = <<>>
    /\ InitPerform

Init ==
    /\ InitPayload
    /\ own_headers = Requestable_headers_default


----------------------------------------------------------------------------
(* The builder: chained setters on the payload value *)

CanBuild == pc = "build" /\ Len(calls) < MaxCalls

SetIncidentKey ==
    \E s \in Strs :
        /\ CanBuild /\ IsTrigger(event)
        /\ event' = set_incident_key(event, s)
        /\ calls' = Append(calls, [op |-> "set_incident_key", s |-> s])
        /\ UNCHANGED <<ctor, own_headers, performVars>>

SetClient ==
    \E s \in Strs :
        /\ CanBuild /\ IsTrigger(event)
        /\ event' = set_client(event, s)
        /\ calls' = Append(calls, [op |-> "set_client", s |-> s])
        /\ UNCHANGED <<ctor, own_headers, performVars>>

SetClientUrl ==
    \E s \in UrlStrs :
        /\ CanBuild /\ IsTrigger(event)
        /\ event' = set_client_url(event, s)
        /\ calls' = Append(calls, [op |-> "set_client_url", s |-> s])
        /\ UNCHANGED <<ctor, own_headers, performVars>>

SetDetails ==
    \E d \in DetailsInputs :
        /\ CanBuild /\ IsTrigger(event)
        /\ event' = set_details(event, d)
        /\ calls' = Append(calls, [op |-> "set_details", d |-> d])
        /\ UNCHANGED <<ctor, own_headers, performVars>>

\* add_context on a Context made by one of the constructor calls in K
AddContextFrom(K) ==
    \E k \in K :
        /\ CanBuild /\ IsTrigger(event)
        /\ event' = add_context(event, MakeContext(k))
        /\ calls' = Append(calls, [op |-> "add_context", c |-> MakeContext(k), made |-> k])
        /\ UNCHANGED <<ctor, own_headers, performVars>>

AddContext == AddContextFrom(ContextCalls)

AddAnyContext == AddContextFrom(AllContextCalls)

SharedSetDetails ==
    \E d \in DetailsInputs :
        /\ CanBuild /\ ~IsTrigger(event)
        /\ event' = shared_set_details(event, d)
        /\ calls' = Append(calls, [op |-> "set_details", d |-> d])
        /\ UNCHANGED <<ctor, own_headers, performVars>>

SharedSetDescription ==
    \E s \in Strs :
        /\ CanBuild /\ ~IsTrigger(event)
        /\ event' = shared_set_description(event, s)
        /\ calls' = Append(calls, [op |-> "set_description", s |-> s])
        /\ UNCHANGED <<ctor, own_headers, performVars>>

----------------------------------------------------------------------------
(* perform: trigger / resolve / acknowledge on the payload as built so far *)

\* send() fails: try! returns the hyper error as Error::Http
PerformSendFails ==
    \E token \in Tokens :
        /\ pc = "build"
        /\ auth' = Some(AuthToken_new(token))
        /\ requests' = Append(requests, BuildRequest(AuthToken_new(token), event))
        /\ transport' = "send_failed"
        /\ result' = Some(Err(From(hyper_Error)))
        /\ pc' = "done"
        /\ UNCHANGED <<eventVars, res, response_body, reads, classified>>

\* send() returns a response: its status and headers, the body still unread
PerformSendOk ==
    \E token \in Tokens, status \in WireStatuses, stream \in WireBodies :
        /\ pc = "build"
        /\ auth' = Some(AuthToken_new(token))
        /\ requests' = Append(requests, BuildRequest(AuthToken_new(token), event))
        /\ res' = Some([status |-> status, headers |-> ResponseHeaders, stream |-> stream])
        /\ transport' = "answered"
        /\ pc' = "sent"
        /\ UNCHANGED <<eventVars, response_body, reads, classified, result>>

\* mutant: the read error is swallowed and perform goes on with what it has
PerformReadFails_continue ==
    /\ pc = "sent"
    /\ reads' = reads + 1
    /\ transport' = "read_failed"
    /\ response_body' = Some(Body_empty)
    /\ pc' = "read"
    /\ UNCHANGED <<eventVars, auth, requests, res, classified, result>>

\* read_to_string fails: try! returns the io error as Error::ReadResponse
PerformReadFails ==
    /\ pc = "sent"
    /\ reads' = reads + 1
    /\ transport' = "read_failed"
    /\ result' = Some(Err(From(io_Error)))
    /\ pc' = "done"
    /\ UNCHANGED <<eventVars, auth, requests, res, response_body, classified>>

\* mutant: one read call that stops before the end of the stream
PerformReadOk_partial ==
    /\ pc = "sent"
    /\ reads' = reads + 1
    /\ transport' = "read"
    /\ response_body' = Some(Body_empty)
    /\ pc' = "read"
    /\ UNCHANGED <<eventVars, auth, requests, res, classified, result>>

\* read_to_string reads the stream to its end
PerformReadOk ==
    /\ pc = "sent"
    /\ reads' = reads + 1
    /\ transport' = "read"
    /\ response_body' = Some(unwrap(res).stream)
    /\ pc' = "read"
    /\ UNCHANGED <<eventVars, auth, requests, res, classified, result>>

\* mutant: a Forbidden or InternalServerError answer is sent again
PerformGetResponse_retry ==
    /\ pc = "read"
    /\ classified' = classified + 1
    /\ LET r == Requestable_get_response(ctor.kind, unwrap(res).status,
                                         unwrap(res).headers, unwrap(response_body))
       IN  IF is_ok(r) /\ r.val.variant \in {"Forbidden", "InternalServerError"}
              /\ Len(requests) < 2
           THEN /\ requests' = Append(requests, requests[1])
                /\ pc' = "sent"
                /\ UNCHANGED result
           ELSE /\ result' = Some(r)
                /\ pc' = "done"
                /\ UNCHANGED requests
    /\ UNCHANGED <<eventVars, auth, res, response_body, reads, transport>>

\* Ok(try!(R::get_response(res.status, &res.headers, &response_body[..])))
PerformGetResponse ==
    /\ pc = "read"
    /\ classified' = classified + 1
    /\ result' = Some(Requestable_get_response(ctor.kind, unwrap(res).status,
                                               unwrap(res).headers,
                                               unwrap(response_body)))
    /\ pc' = "done"
    /\ UNCHANGED <<eventVars, auth, requests, res, response_body, reads, transport>>

----------------------------------------------------------------------------
(* Specifications *)

Next ==
    \/ SetIncidentKey
    \/ SetClient
    \/ SetClientUrl
    \/ SetDetails
    \/ AddContext
    \/ SharedSetDetails
    \/ SharedSetDescription
    \/ PerformSendFails
    \/ PerformSendOk
    \/ PerformReadFails
    \/ PerformReadOk
    \/ PerformGetResponse

Spec == Init /\ [][Next]_vars

\* get_response as a function of its inputs: perform has sent a request and
\* read an answer, which may be any status with any body text
InitResponse ==
    /\ ctor \in {c \in Ctors : c.a1 = "a" /\ c.a2 = "b"}
    /\ event = New(ctor)
    /\ calls = <<>>
    /\ own_headers = Requestable_headers_default
    /\ pc = "read"
    /\ auth = Some(AuthToken_new("abc"))
    /\ requests = <<BuildRequest(AuthToken_new("abc"), event)>>
    /\ \E status \in Statuses, stream \in Bodies :
        /\ res = Some([status |-> status, headers |-> ResponseHeaders, stream |-> stream])
        /\ response_body = Some(stream)
    /\ reads = 1
    /\ classified = 0
    /\ transport = "read"
    /\ result = None

NextResponse == PerformGetResponse

SpecResponse == InitResponse /\ [][NextResponse]_vars

\* the attachments as values: a TriggerEvent to which Contexts made by any
\* call of the two constructors are added
InitContext == Init /\ ctor.kind = "TriggerEvent"

NextContext == AddAnyContext

SpecContext == InitContext /\ [][NextContext]_vars

\* the headers a payload type may give of its own by overriding
\* Requestable::headers: any selection of these, the three that perform
\* sets itself among them
PayloadHeaderNames ==
    {"Authorization", "User-Agent", "Content-Type", "Accept", "X-Request-Id"}
PayloadHeaderValue(n) ==
    CASE n = "Authorization" -> "payload-token"
      [] n = "User-Agent" -> "payload-agent"
      [] n = "Content-Type" -> "text/plain"
      [] n = "Accept" -> "application/json"
      [] n = "X-Request-Id" -> "1"
PayloadHeaders ==
    {[n \in D |-> PayloadHeaderValue(n)] : D \in SUBSET PayloadHeaderNames}

\* perform on a payload whose headers() returns any of those
InitHeaders ==
    /\ InitPayload
    /\ own_headers \in PayloadHeaders

NextHeaders ==
    \/ PerformSendFails
    \/ PerformSendOk
    \/ PerformReadFails
    \/ PerformReadOk
    \/ PerformGetResponse

SpecHeaders == InitHeaders /\ [][NextHeaders]_vars

----------------------------------------------------------------------------
(* Claims about Response::get_response, checked under SpecResponse *)

\* the inputs and the outcome of the one get_response call of a finished invocation
Classified == pc = "done" /\ classified = 1
TheStatus == unwrap(res).status
TheBody == unwrap(response_body)
TheResult == unwrap(result)

IsVariant(r, v) == is_ok(r) /\ r.val.variant = v
IsError(r, k) == is_err(r) /\ r.err.kind = k

\* the strings of a JSON array of strings, in order
StrsOf(arr) == [i \in 1..Len(arr.a) |-> arr.a[i].s]

\* C1: a 200 whose body decodes as a Success record yields Response::Success
\* with the body's status, message and incident_key; a 400 whose body decodes
\* as a BadRequest record yields Response::BadRequest with the body's status,
\* message and errors in the same order; no other status yields either variant.
C1_DecodableBodyClassified ==
    Classified =>
        /\ (TheStatus = 200 /\ is_ok(from_str_Success(TheBody))) =>
              /\ IsVariant(TheResult, "Success")
              /\ TheResult.val.success.status = Get(TheBody.value, "status").s
              /\ TheResult.val.success.message = Get(TheBody.value, "message").s
              /\ TheResult.val.success.incident_key = Get(TheBody.value, "incident_key").s
        /\ (TheStatus = 400 /\ is_ok(from_str_BadRequest(TheBody))) =>
              /\ IsVariant(TheResult, "BadRequest")
              /\ TheResult.val.bad_request.status = Get(TheBody.value, "status").s
              /\ TheResult.val.bad_request.message = Get(TheBody.value, "message").s
              /\ TheResult.val.bad_request.errors = StrsOf(Get(TheBody.value, "errors"))
        /\ IsVariant(TheResult, "Success") => TheStatus = 200
        /\ IsVariant(TheResult, "BadRequest") => TheStatus = 400

\* a 400 with two errors came back as BadRequest with the two errors in order
C1_Witness ==
    /\ Classified
    /\ TheStatus = 400
    /\ TheBody = Json(BadRequestObj("invalid event", "m", <<"e2", "e1">>))
    /\ IsVariant(TheResult, "BadRequest")
    /\ TheResult.val.bad_request.errors = <<"e2", "e1">>

\* C2: with status 403 the result is Response::Forbidden and with any status
\* in 500..599 it is Response::InternalServerError, whatever the body text is.
C2_BodyIgnored ==
    Classified =>
        /\ TheStatus = 403 => IsVariant(TheResult, "Forbidden")
        /\ (500 <= TheStatus /\ TheStatus <= 599) =>
              IsVariant(TheResult, "InternalServerError")

\* a 503 with a body that is no JSON came back as InternalServerError
C2_Witness ==
    /\ Classified
    /\ TheStatus = 503
    /\ TheBody = Body_garbage
    /\ IsVariant(TheResult, "InternalServerError")

\* C3: a status that is not 200, 400, 403 or in 500..599 fails with
\* Error::UnexpectedApiResponse for every body, and yields no Response variant.
C3_UnrecognisedStatusIsError ==
    (/\ Classified
     /\ TheStatus \notin {200, 400, 403}
     /\ ~(500 <= TheStatus /\ TheStatus <= 599)) =>
        /\ IsError(TheResult, "UnexpectedApiResponse")
        /\ ~is_ok(TheResult)

\* a 418 carrying a well-formed Success body was refused
C3_Witness ==
    /\ Classified
    /\ TheStatus = 418
    /\ TheBody = Body_success
    /\ IsError(TheResult, "UnexpectedApiResponse")

\* C4: a 200 whose body does not decode as Success, or a 400 whose body does
\* not decode as BadRequest, yields Error::Deserialize: no Response variant
\* and not UnexpectedApiResponse.
C4_DecodeFailureIsDeserialize ==
    (/\ Classified
     /\ \/ TheStatus = 200 /\ is_err(from_str_Success(TheBody))
        \/ TheStatus = 400 /\ is_err(from_str_BadRequest(TheBody))) =>
        /\ IsError(TheResult, "Deserialize")
        /\ ~is_ok(TheResult)
        /\ ~IsError(TheResult, "UnexpectedApiResponse")

\* a 200 carrying a well-formed BadRequest body failed to decode
C4_Witness ==
    /\ Classified
    /\ TheStatus = 200
    /\ TheBody = Body_bad_request
    /\ IsError(TheResult, "Deserialize")

----------------------------------------------------------------------------
(* Claims about perform, checked under Spec *)

Invoked == pc # "build"
Returned == pc = "done"

\* what get_response makes of the answer that was read
Verdict ==
    Requestable_get_response(ctor.kind, unwrap(res).status, unwrap(res).headers,
                             unwrap(response_body))

\* C5: an invocation of perform hands exactly one request to the transport,
\* whatever the outcome: never a second one after a Forbidden or
\* InternalServerError result, a transport error or a decode error.
C5_ExactlyOneRequest ==
    /\ Len(requests) <= 1
    /\ Invoked => Len(requests) = 1

\* an invocation that ended in Forbidden has sent one request
C5_Witness ==
    /\ Returned
    /\ IsVariant(TheResult, "Forbidden")
    /\ Len(requests) = 1

\* C6: a failed send returns Error::Http with no body read and no
\* get_response call; a failed body read returns Error::ReadResponse with no
\* get_response call; a failing get_response is returned as it is; and no
\* failure ends in an Ok Response.
C6_FailuresShortCircuit ==
    /\ transport \in {"idle", "send_failed"} => reads = 0 /\ classified = 0
    /\ transport \in {"answered", "read_failed"} => classified = 0
    /\ Returned =>
        /\ transport = "send_failed" => IsError(TheResult, "Http")
        /\ transport = "read_failed" => IsError(TheResult, "ReadResponse")
        /\ (transport = "read" /\ is_err(Verdict)) =>
              /\ is_err(TheResult)
              /\ TheResult.err.kind = Verdict.err.kind
        /\ is_ok(TheResult) => transport = "read" /\ is_ok(Verdict)

\* the body read failed after a 200 answer: ReadResponse, nothing classified
C6_Witness ==
    /\ Returned
    /\ transport = "read_failed"
    /\ unwrap(res).status = 200
    /\ IsError(TheResult, "ReadResponse")
    /\ classified = 0

\* C7: the request carries an Authorization header whose value is
\* `Token token=` followed by the credential string.
C7_AuthorizationTokenScheme ==
    \A i \in 1..Len(requests) :
        /\ "Authorization" \in DOMAIN requests[i].headers
        /\ requests[i].headers["Authorization"] = "Token token=" \o unwrap(auth)

----------------------------------------------------------------------------
(* Claims about the payload builders and their serialization, under Spec *)

\* the builder calls of one setter, in call order
CallsOf(op) == SelectSeq(calls, LAMBDA c : c.op = op)
Called(op) == Len(CallsOf(op)) > 0
LastCall(op) == CallsOf(op)[Len(CallsOf(op))]

\* the serialized forms in a state: while the payload is being built, what
\* to_string gives for it as it stands; afterwards, the bodies that were sent
SerializedForms ==
    IF requests = <<>>
    THEN {body(event)}
    ELSE {requests[i].body : i \in 1..Len(requests)}

\* the optional string fields of each payload type
OptStrKeys == IF ctor.kind = "TriggerEvent"
              THEN {"incident_key", "client", "client_url"}
              ELSE {"description"}

\* C8: the serialized object holds the key of an optional field exactly when
\* that field's setter was called, once, with the value of the last such call;
\* a field never set is absent, not null.
C8_OptionalKeysTrackSetters ==
    \A S \in SerializedForms :
        /\ \A k \in OptStrKeys :
            LET set == CallsOf("set_" \o k)
            IN  IF set = <<>>
                THEN ~HasKey(S, k)
                ELSE /\ CountKey(S, k) = 1
                     /\ Get(S, k) = JStr(set[Len(set)].s)
        /\ LET set == CallsOf("set_details")
           IN  IF set = <<>>
               THEN ~HasKey(S, "details")
               ELSE /\ CountKey(S, "details") = 1
                    /\ Get(S, "details") = to_value(set[Len(set)].d)

\* set_client called twice: the sent body has the second value, and no key
\* for the fields never set
C8_Witness ==
    /\ ctor.kind = "TriggerEvent"
    /\ Len(requests) = 1
    /\ Len(CallsOf("set_client")) = 2
    /\ CallsOf("set_client")[1].s = "a"
    /\ CallsOf("set_client")[2].s = "b"
    /\ Get(requests[1].body, "client") = JStr("b")
    /\ ~Called("set_incident_key")
    /\ ~HasKey(requests[1].body, "incident_key")

\* the attachments added, in call order, as they are to be serialized
AddedContexts ==
    LET a == CallsOf("add_context")
    IN  [i \in 1..Len(a) |-> SerializeContext(a[i].c)]

\* C9: the `contexts` array lists the attachments in the order of the
\* add_context calls, none lost or duplicated; with no add_context call the
\* key is absent, not an empty array.
C9_ContextsOrderAndOmission ==
    LET added == AddedContexts
    IN  \A S \in SerializedForms :
            IF added = <<>>
            THEN ~HasKey(S, "contexts")
            ELSE /\ CountKey(S, "contexts") = 1
                 /\ LET arr == Get(S, "contexts")
                    IN  /\ arr.t = "arr"
                        /\ Len(arr.a) = Len(added)
                        /\ \A i \in 1..Len(added) : arr.a[i] = added[i]

\* an image, then another setter, then a link: the array is image, link
C9_Witness ==
    /\ Len(calls) = 3
    /\ calls[1].op = "add_context" /\ calls[1].c.context_type = "image"
    /\ calls[2].op = "set_details"
    /\ calls[3].op = "add_context" /\ calls[3].c.context_type = "link"
    /\ Len(Get(body(event), "contexts").a) = 2
    /\ Get(Get(body(event), "contexts").a[1], "type") = JStr("image")
    /\ Get(Get(body(event), "contexts").a[2], "type") = JStr("link")

\* the discriminator and the name of the second required field, by type
Discriminator == CASE ctor.kind = "TriggerEvent" -> "trigger"
                   [] ctor.kind = "ResolveEvent" -> "resolve"
                   [] ctor.kind = "AcknowledgeEvent" -> "acknowledge"
SecondRequiredKey == IF ctor.kind = "TriggerEvent" THEN "description" ELSE "incident_key"

\* C10: after the constructor and any setters the serialized object holds
\* service_key and the second required field (description for trigger,
\* incident_key for resolve / acknowledge) with the constructor's arguments,
\* and event_type with the type's discriminator, each once.
C10_RequiredFieldsFixed ==
    \A S \in SerializedForms :
        /\ CountKey(S, "service_key") = 1
        /\ Get(S, "service_key") = JStr(ctor.a1)
        /\ CountKey(S, "event_type") = 1
        /\ Get(S, "event_type") = JStr(Discriminator)
        /\ CountKey(S, SecondRequiredKey) = 1
        /\ Get(S, SecondRequiredKey) = JStr(ctor.a2)

\* an AcknowledgeEvent after three setter calls still says acknowledge and
\* holds both constructor arguments
C10_Witness ==
    /\ ctor.kind = "AcknowledgeEvent"
    /\ Len(calls) = 3
    /\ Called("set_description") /\ Called("set_details")
    /\ Get(body(event), "event_type") = JStr("acknowledge")
    /\ Get(body(event), "service_key") = JStr(ctor.a1)
    /\ Get(body(event), "incident_key") = JStr(ctor.a2)

----------------------------------------------------------------------------
(* Claims about Context, checked under SpecContext *)

SerType(S) == Get(S, "type")

\* an optional argument shows in the object exactly when it was supplied
ShowsIfSupplied(S, k, arg) ==
    IF is_none(arg)
    THEN ~HasKey(S, k)
    ELSE CountKey(S, k) = 1 /\ Get(S, k) = JStr(unwrap(arg))

\* C11: every Context made by the public constructors is an image (type
\* "image", src present, text absent, href and alt present only if supplied)
\* or a link (type "link", href present, src and alt absent); never a mixture
\* of the two and never another type.
C11_ContextShapesNeverMix ==
    LET made == CallsOf("add_context")
    IN  /\ Len(event.contexts) = Len(made)
        /\ \A i \in 1..Len(made) :
            LET c == event.contexts[i]
                k == made[i].made
                S == SerializeContext(c)
            IN  /\ CountKey(S, "type") = 1
                /\ SerType(S) \in {JStr("image"), JStr("link")}
                /\ c.context_type \in {"image", "link"}
                /\ SerType(S) = JStr(k.fn)
                /\ SerType(S) = JStr("image") =>
                      /\ CountKey(S, "src") = 1 /\ Get(S, "src") = JStr(k.src)
                      /\ ~HasKey(S, "text") /\ is_none(c.text)
                      /\ ShowsIfSupplied(S, "href", k.href)
                      /\ ShowsIfSupplied(S, "alt", k.alt)
                /\ SerType(S) = JStr("link") =>
                      /\ CountKey(S, "href") = 1 /\ Get(S, "href") = JStr(k.href)
                      /\ ~HasKey(S, "src") /\ is_none(c.src)
                      /\ ~HasKey(S, "alt") /\ is_none(c.alt)

\* an image given an alt text but no href, followed by a link
C11_Witness ==
    /\ Len(event.contexts) = 2
    /\ calls[1].made = ImageCall("a", None, Some("b"))
    /\ calls[2].made.fn = "link"
    /\ Keys(SerializeContext(event.contexts[1])) = {"type", "src", "alt"}
    /\ Keys(SerializeContext(event.contexts[2])) = {"type", "href", "text"}

\* the attachment added last
LastContext(e) == SerializeContext(e.contexts[Len(e.contexts)])

\* a step that adds a link whose serialized object has href and no text
AddsLinkWithoutText ==
    /\ AddAnyContext
    /\ SerType(LastContext(event')) = JStr("link")
    /\ HasKey(LastContext(event'), "href")
    /\ ~HasKey(LastContext(event'), "text")

\* C12: a link attachment can be constructed from the required href alone,
\* and then serializes to an object with `type` "link" and `href` and without
\* a `text` key.
C12_LinkTextOptional == CanBuild => ENABLED AddsLinkWithoutText

\* C12, what the code does instead: every link in an event carries a text
\* key, holding the second argument of Context::link
C12_EveryLinkHasText ==
    \A i \in 1..Len(event.contexts) :
        LET S == SerializeContext(event.contexts[i])
        IN  SerType(S) = JStr("link") =>
                /\ CountKey(S, "text") = 1
                /\ Get(S, "text") = JStr(calls[i].made.text)

----------------------------------------------------------------------------
(* Claims about the steps of perform and the request it sends, under Spec *)

\* C13: the request is sent before anything of the response is read, the
\* whole body is read before get_response is called, get_response is called
\* at most once, and when sending and reading succeed perform returns what
\* the payload type's get_response gives for the response's status, headers
\* and complete body.
C13_StepOrderAndPassThrough ==
    /\ reads <= 1 /\ classified <= 1
    /\ reads > 0 => Len(requests) = 1 /\ is_some(res)
    /\ classified > 0 =>
          /\ reads = 1
          /\ transport = "read"
          /\ response_body = Some(unwrap(res).stream)
    /\ (Returned /\ transport = "read") =>
          /\ classified = 1
          /\ TheResult = Requestable_get_response(ctor.kind, unwrap(res).status,
                                                  unwrap(res).headers,
                                                  unwrap(res).stream)

\* a 200 with a Success body, sent, read and classified once each, came
\* back as Response::Success
C13_Witness ==
    /\ Returned
    /\ Len(requests) = 1 /\ reads = 1 /\ classified = 1
    /\ unwrap(res).status = 200
    /\ unwrap(res).stream = Body_success
    /\ IsVariant(TheResult, "Success")
    /\ TheResult.val.success.incident_key = "KEY123"

\* what each payload type's get_response makes of the answer that was read
VerdictOf(kind) ==
    Requestable_get_response(kind, unwrap(res).status, unwrap(res).headers,
                             unwrap(response_body))

\* C14: for each of the three event types, in any builder state, the request
\* perform issues is a POST to
\* https://events.pagerduty.com/generic/2010-04-15/create_event.json with the
\* payload's serialized JSON as its body; and the three types classify the
\* same status and body to the same result.
C14_SameRequestTarget ==
    /\ \A i \in 1..Len(requests) :
        /\ requests[i].method = "POST"
        /\ requests[i].url =
              "https://events.pagerduty.com/generic/2010-04-15/create_event.json"
        /\ requests[i].body = body(event)
    /\ is_some(response_body) =>
          \A k \in Kinds : VerdictOf(k) = VerdictOf("TriggerEvent")

\* a ResolveEvent with a description set was posted, and the answer read
C14_Witness ==
    /\ ctor.kind = "ResolveEvent"
    /\ Called("set_description")
    /\ Len(requests) = 1
    /\ requests[1].method = "POST"
    /\ HasKey(requests[1].body, "description")
    /\ Get(requests[1].body, "event_type") = JStr("resolve")
    /\ is_some(response_body)
    /\ unwrap(res).status = 400
    /\ IsVariant(VerdictOf("ResolveEvent"), "BadRequest")

----------------------------------------------------------------------------
(* Claims about the headers perform sends, checked under SpecHeaders *)

DefaultHeaderNames == {"Authorization", "User-Agent", "Content-Type"}

\* C15: whatever headers the payload's headers() returns, its own
\* Authorization, User-Agent or Content-Type included, the headers sent hold
\* one Authorization made from the credential, one User-Agent equal to
\* "hyper/0.8.0 pagerduty-rs/0.1.0" and one Content-Type application/json,
\* and every other header of the payload unchanged. (Headers holds one value
\* per name, so a name in it is there once.)
C15_DefaultHeadersWin ==
    \A i \in 1..Len(requests) :
        LET h == requests[i].headers
        IN  /\ DOMAIN h = (DOMAIN own_headers) \cup DefaultHeaderNames
            /\ h["Authorization"] = to_header(unwrap(auth)).value
            /\ h["User-Agent"] = "hyper/0.8.0 pagerduty-rs/0.1.0"
            /\ h["Content-Type"] = "application/json"
            /\ \A n \in (DOMAIN own_headers) \ DefaultHeaderNames : h[n] = own_headers[n]

\* a payload giving all five headers of its own: the three defaults replaced
\* its values, the other two went out as given
C15_Witness ==
    /\ DOMAIN own_headers = PayloadHeaderNames
    /\ Len(requests) = 1
    /\ auth = Some("abc")
    /\ requests[1].headers["Authorization"] = "abc"
    /\ own_headers["Authorization"] = "payload-token"
    /\ requests[1].headers["Content-Type"] = "application/json"
    /\ requests[1].headers["X-Request-Id"] = "1"
    /\ requests[1].headers["Accept"] = "application/json"

====
